---- MODULE Spec2Model ----
(***************************************************************************)
(* A model of the localui console: the content preview pipeline           *)
(* (PreviewElement.tsx), the SQS queue actions (actions.ts), the S3       *)
(* bucket loader and the bucket page (route.tsx) and the root error       *)
(* boundary.  Strings are TLA+ strings, indexed as JavaScript indexes     *)
(* them (0-based) through the helpers below.                              *)
(***************************************************************************)
EXTENDS Integers, Sequences, FiniteSets, TLC

VARIABLES
    contentType,    \* PreviewContent: the contentType prop
    rendered,       \* PreviewContent: the renderer variant returned
    fetchState,     \* the viewer's fetch(src) promise chain
    body,           \* the response body the chain was resolved with
    viewerState,    \* the viewer's useState value
    handler,        \* the loader or action the server is running
    formData,       \* the request's form data (actions)
    params,         \* the route params (loader)
    sent,           \* the SDK commands sent, with the state of each promise
    listObjectsResponse, \* loader: what ListObjectsV2 resolved with
    result,         \* what the handler returned or threw
    screen,         \* what the framework renders for the request
    searchParams,   \* bucket page: the URL's search params, in order
    view,           \* bucket page: what BucketDetails rendered from them
    lastEvent,      \* bucket page: the last user event and its input
    formRef,        \* bucket page: formRef.current, the upload form
    acceptedFiles,  \* bucket page: the files of each drop, in order
    submitted       \* bucket page: the submissions made by submit()

previewVars == <<contentType, rendered, fetchState, body, viewerState>>

serverVars ==
    <<handler, formData, params, sent, listObjectsResponse, result, screen>>

urlVars == <<searchParams, view, lastEvent>>

dropVars == <<formRef, acceptedFiles, submitted>>

vars == <<previewVars, serverVars, urlVars, dropVars>>

\* the variables outside the preview pipeline
notPreviewVars == <<serverVars, urlVars, dropVars>>

\* the variables outside the server handlers
notServerVars == <<previewVars, urlVars, dropVars>>

\* the variables outside the bucket page's URL state
notUrlVars == <<previewVars, serverVars, dropVars>>

\* the variables outside the bucket page's upload form
notDropVars == <<previewVars, serverVars, urlVars>>

\* an optional value: <<>> is undefined (or an absent entry), <<v>> is v
None == <<>>
Some(v) == <<v>>

-----------------------------------------------------------------------------
(* JavaScript string primitives *)

\* String.prototype.startsWith
StartsWith(s, p) == Len(p) <= Len(s) /\ SubSeq(s, 1, Len(p)) = p

\* String.prototype.endsWith
EndsWith(s, p) ==
    Len(p) <= Len(s) /\ SubSeq(s, Len(s) - Len(p) + 1, Len(s)) = p

\* String.prototype.slice(from, to), 0 <= from, to exclusive
Slice(s, from, to) ==
    IF to <= from THEN "" ELSE SubSeq(s, from + 1, IF to > Len(s) THEN Len(s) ELSE to)

\* the 0-based positions at which p occurs in s
Occurrences(s, p) ==
    {i \in 0..(Len(s) - Len(p)) : Slice(s, i, i + Len(p)) = p}

Min(S) == CHOOSE m \in S : \A n \in S : m <= n
Max(S) == CHOOSE m \in S : \A n \in S : n <= m

\* String.prototype.indexOf
IndexOf(s, p) == IF Occurrences(s, p) = {} THEN -1 ELSE Min(Occurrences(s, p))

\* String.prototype.lastIndexOf
LastIndexOf(s, p) ==
    IF Occurrences(s, p) = {} THEN -1 ELSE Max(Occurrences(s, p))

\* String.prototype.replace with a string pattern: the first occurrence only
Replace(s, p, r) ==
    IF IndexOf(s, p) = -1 THEN s
    ELSE Slice(s, 0, IndexOf(s, p)) \o r
            \o Slice(s, IndexOf(s, p) + Len(p), Len(s))

\* String.prototype.split with a non-empty separator
RECURSIVE Split(_, _)
Split(s, sep) ==
    IF IndexOf(s, sep) = -1 THEN <<s>>
    ELSE <<Slice(s, 0, IndexOf(s, sep))>>
            \o Split(Slice(s, IndexOf(s, sep) + Len(sep), Len(s)), sep)

\* Array.prototype.join
RECURSIVE Join(_, _)
Join(xs, sep) ==
    IF Len(xs) = 0 THEN ""
    ELSE IF Len(xs) = 1 THEN xs[1]
    ELSE xs[1] \o sep \o Join(Tail(xs), sep)

-----------------------------------------------------------------------------
(* PreviewElement.tsx: the type classifier *)

\* the content types a stored object may declare
ContentTypes ==
    { "", "text", "text/", "text/csv", "text/csv; charset=utf-8",
      "text/csvx", "text/cs", "text/plain", "text/html",
      "image/png", "image/", "image", "ximage/png", "video/mp4",
      "audio/ogg", "application/json", "application/json; charset=utf-8",
      "application/jso", "application/pdf", "application/octet-stream",
      "Image/png" }

\* the text/ test placed before the text/csv test
PreviewContent_TextFirst(ct) ==
    IF StartsWith(ct, "image/") THEN "img"
    ELSE IF StartsWith(ct, "video/") THEN "video"
    ELSE IF StartsWith(ct, "audio/") THEN "audio"
    ELSE IF StartsWith(ct, "text/") THEN "TextViewer"
    ELSE IF StartsWith(ct, "text/csv") THEN "CsvViewer"
    ELSE IF StartsWith(ct, "application/json") THEN "JsonViewer"
    ELSE "iframe"

PreviewContent(ct) ==
    IF StartsWith(ct, "image/") THEN "img"
    ELSE IF StartsWith(ct, "video/") THEN "video"
    ELSE IF StartsWith(ct, "audio/") THEN "audio"
    ELSE IF StartsWith(ct, "text/csv") THEN "CsvViewer"
    ELSE IF StartsWith(ct, "text/") THEN "TextViewer"
    ELSE IF StartsWith(ct, "application/json") THEN "JsonViewer"
    ELSE "iframe"

-----------------------------------------------------------------------------
(* JSON documents: [t, p, e]; p is the text of a primitive, e the elements *)
(* of an array or the [k, v] entries of an object, in insertion order      *)

\* the largest number of values (containers and primitives) in a document
MaxNodes == 4

JsonKeys == {"a", "a']['a"}

JsonNull == [t |-> "null", p |-> "null", e |-> <<>>]

JsonLeaves ==
    { JsonNull,
      [t |-> "bool", p |-> "true", e |-> <<>>],
      [t |-> "num", p |-> "7", e |-> <<>>],
      [t |-> "str", p |-> "s", e |-> <<>>] }

KeySeqs(n) ==
    {ks \in [1..n -> JsonKeys] : \A i, j \in 1..n : ks[i] = ks[j] => i = j}

RECURSIVE JsonOfSize(_), JsonSeqs(_)
JsonOfSize(n) ==
    (IF n = 1 THEN JsonLeaves ELSE {})
    \cup {[t |-> "arr", p |-> "", e |-> s] : s \in JsonSeqs(n - 1)}
    \cup UNION { {[t |-> "obj", p |-> "",
                   e |-> [i \in 1..Len(s) |-> [k |-> ks[i], v |-> s[i]]]] :
                        ks \in KeySeqs(Len(s))} : s \in JsonSeqs(n - 1) }

JsonSeqs(m) ==
    IF m = 0 THEN {<<>>}
    ELSE UNION { {<<v>> \o r : v \in JsonOfSize(k), r \in JsonSeqs(m - k)} :
                    k \in 1..m }

JsonDocs == UNION {JsonOfSize(n) : n \in 1..MaxNodes}

\* Array.isArray(x) || (typeof x === 'object' && x !== null)
IsContainer(x) == x.t \in {"arr", "obj"}

\* JSON.stringify of a primitive
JsonStringify(x) == IF x.t = "str" THEN "\"" \o x.p \o "\"" ELSE x.p

\* Object.entries of an array or an object
ObjectEntries(x) ==
    IF x.t = "arr"
    THEN [i \in 1..Len(x.e) |-> [k |-> ToString(i - 1), v |-> x.e[i]]]
    ELSE x.e

\* Object.keys of a non-null value; of a string, its indexes
ObjectKeys(x) ==
    IF IsContainer(x) THEN [i \in 1..Len(x.e) |-> ObjectEntries(x)[i].k]
    ELSE IF x.t = "str" THEN [i \in 1..Len(x.p) |-> ToString(i - 1)]
    ELSE <<>>

\* template literal `${keyPrefix}['${key}']`
NodeId(keyPrefix, key) == keyPrefix \o "['" \o key \o "']"

\* a TreeItem: label holds the key and, for a leaf, the JsonValue text
RECURSIVE convertToTree(_, _)
convertToTree(obj, keyPrefix) ==
    IF IsContainer(obj)
    THEN [i \in 1..Len(obj.e) |->
            LET key == ObjectEntries(obj)[i].k
                value == ObjectEntries(obj)[i].v
                nodeId == NodeId(keyPrefix, key)
            IN  IF IsContainer(value)
                THEN [el |-> "TreeItem", nodeId |-> nodeId, key |-> key,
                      value |-> None,
                      children |-> convertToTree(value, nodeId)]
                ELSE [el |-> "TreeItem", nodeId |-> nodeId, key |-> key,
                      value |-> Some(JsonStringify(value)),
                      children |-> <<>>] ]
    ELSE <<[el |-> "JsonValue", nodeId |-> "", key |-> "",
            value |-> Some(JsonStringify(obj)), children |-> <<>>]>>

-----------------------------------------------------------------------------
(* PreviewElement.tsx: the renderer variants and their fetch lifecycle *)

\* the variants that call fetch(src) in an effect
Viewers == {"CsvViewer", "TextViewer", "JsonViewer"}

\* the variants that hand src to an element the browser loads
Embeds == {"img", "video", "audio", "iframe"}

\* a parsed CSV record: its [k, v] columns in header order
CsvRow1 == <<[k |-> "id", v |-> "1"], [k |-> "name", v |-> "x"]>>
CsvRow2 == <<[k |-> "id", v |-> "2"], [k |-> "name", v |-> "y"]>>

\* the largest number of records in a CSV body
MaxRows == 2

\* what csv-parse hands to the callback as output: nothing on a parse
\* error, else the records below the header line
CsvOutputs ==
    {None} \cup {Some(rows) : rows \in UNION {[1..n -> {CsvRow1, CsvRow2}] :
                                                n \in 0..MaxRows}}

TextBodies == {"", "a", "a,b"}

\* a body that response.json() cannot parse
JsonInvalid == [t |-> "invalid", p |-> "", e |-> <<>>]

\* useState's initial value
InitialState(variant) ==
    IF variant = "TextViewer" THEN Some([content |-> ""]) ELSE None

\* what the mounted variant returns from render
Displayed ==
    IF rendered \in {"CsvViewer", "JsonViewer"} /\ viewerState = None
    THEN "nothing"
    ELSE rendered

\* PreviewContent renders the variant; a viewer's effect starts its fetch
Mount(ct) ==
    /\ rendered = "none"
    /\ contentType' = ct
    /\ rendered' = PreviewContent(ct)
    /\ viewerState' = InitialState(PreviewContent(ct))
    /\ fetchState' = IF PreviewContent(ct) \in Viewers THEN "pending"
                     ELSE "browser"
    /\ body' = None
    /\ UNCHANGED notPreviewVars

\* CsvViewer: fetch resolved, csv-parse called back with output
CsvFetched(output) ==
    /\ rendered = "CsvViewer"
    /\ fetchState = "pending"
    /\ body' = Some(output)
    /\ IF output = None \/ Len(output[1]) = 0
       THEN \* output[0] or Object.keys(undefined) throws TypeError
            /\ fetchState' = "threw"
            /\ UNCHANGED viewerState
       ELSE /\ fetchState' = "done"
            /\ viewerState' =
                 Some([rows |-> output[1],
                       columns |-> [i \in 1..Len(output[1][1]) |->
                                        output[1][1][i].k]])
    /\ UNCHANGED <<contentType, rendered>>
    /\ UNCHANGED notPreviewVars

\* TextViewer: fetch resolved with the text
TextFetched(data) ==
    /\ rendered = "TextViewer"
    /\ fetchState = "pending"
    /\ body' = Some(data)
    /\ fetchState' = "done"
    /\ viewerState' = Some([content |-> data])
    /\ UNCHANGED <<contentType, rendered>>
    /\ UNCHANGED notPreviewVars

\* JsonViewer: fetch resolved, response.json() parsed the body
JsonFetched(data) ==
    /\ rendered = "JsonViewer"
    /\ fetchState = "pending"
    /\ body' = Some(data)
    /\ IF data = JsonInvalid \/ data = JsonNull
       THEN \* response.json() rejects, or Object.keys(null) throws
            /\ fetchState' = "threw"
            /\ UNCHANGED viewerState
       ELSE /\ fetchState' = "done"
            /\ viewerState' =
                 Some([defaultExpanded |-> ObjectKeys(data),
                       children |-> convertToTree(data, "")])
    /\ UNCHANGED <<contentType, rendered>>
    /\ UNCHANGED notPreviewVars

\* fetch(src) itself rejects (network error)
FetchFailed ==
    /\ rendered \in Viewers
    /\ fetchState = "pending"
    /\ fetchState' = "failed"
    /\ UNCHANGED <<contentType, rendered, body, viewerState>>
    /\ UNCHANGED notPreviewVars

\* the preview is closed
Unmount ==
    /\ rendered # "none"
    /\ contentType' = ""
    /\ rendered' = "none"
    /\ fetchState' = "idle"
    /\ body' = None
    /\ viewerState' = None
    /\ UNCHANGED notPreviewVars

PreviewNext ==
    \/ \E ct \in ContentTypes : Mount(ct)
    \/ \E output \in CsvOutputs : CsvFetched(output)
    \/ \E data \in TextBodies : TextFetched(data)
    \/ \E data \in JsonDocs \cup {JsonInvalid} : JsonFetched(data)
    \/ FetchFailed
    \/ Unmount

-----------------------------------------------------------------------------
(* Claims on the preview pipeline *)

\* the classifier's table: prefix and renderer, in matching order
PrefixTable ==
    << <<"image/", "img">>, <<"video/", "video">>, <<"audio/", "audio">>,
       <<"text/csv", "CsvViewer">>, <<"text/", "TextViewer">>,
       <<"application/json", "JsonViewer">> >>

Matching(ct) == {i \in 1..Len(PrefixTable) : StartsWith(ct, PrefixTable[i][1])}

FirstMatch(ct) ==
    IF Matching(ct) = {} THEN "iframe" ELSE PrefixTable[Min(Matching(ct))][2]

\* C1: once mounted, the renderer is one of the seven variants, it is the
\* one of the first matching prefix of the table (the frame when none
\* matches, as for the empty string), and a text/csv type is never given
\* to the text viewer.
C1_Classifier ==
    rendered # "none" =>
        /\ rendered \in Viewers \cup Embeds
        /\ rendered = FirstMatch(contentType)
        /\ (StartsWith(contentType, "text/csv") => rendered # "TextViewer")

C1_Witness ==
    /\ contentType = "text/csv; charset=utf-8"
    /\ rendered = "CsvViewer"

\* the fetch of a viewer has completed with a body
FetchCompleted == rendered \in Viewers /\ Len(body) = 1

\* C2: before its fetch completes the CSV and JSON viewers display nothing
\* and the text viewer displays empty content; once the fetch has completed
\* the viewer holds a display-ready structure.
C2_FetchThenDisplay ==
    /\ (rendered \in Viewers /\ fetchState = "pending") =>
          /\ rendered \in {"CsvViewer", "JsonViewer"} => Displayed = "nothing"
          /\ rendered = "TextViewer" => viewerState = Some([content |-> ""])
    /\ FetchCompleted => (Len(viewerState) = 1 /\ Displayed = rendered)

\* the tree items mirror the entries of the JSON value, level by level
RECURSIVE TreeMirrors(_, _)
TreeMirrors(x, items) ==
    IF IsContainer(x)
    THEN /\ Len(items) = Len(x.e)
         /\ \A i \in 1..Len(items) :
              LET entry == ObjectEntries(x)[i] IN
              /\ items[i].el = "TreeItem"
              /\ items[i].key = entry.k
              /\ IF IsContainer(entry.v)
                 THEN /\ items[i].value = None
                      /\ TreeMirrors(entry.v, items[i].children)
                 ELSE /\ items[i].value = Some(JsonStringify(entry.v))
                      /\ Len(items[i].children) = 0
    ELSE \A i \in 1..Len(items) : items[i].el # "TreeItem"

\* C3: for every JSON document fetched by the JSON viewer (null and the
\* other primitives included), the viewer holds a tree on completion, and
\* its items mirror the document's entries: one item per entry, labelled
\* with the key, with the entries of a container value as children and the
\* serialised value on a leaf.
C3_JsonTree ==
    (rendered = "JsonViewer" /\ Len(body) = 1 /\ body[1] # JsonInvalid) =>
        /\ Len(viewerState) = 1
        /\ TreeMirrors(body[1], viewerState[1].children)

\* the node ids of the tree items, children included, in document order
RECURSIVE TreeIdsOf(_)
TreeIdsOf(items) ==
    IF Len(items) = 0 THEN <<>>
    ELSE (IF Head(items).el = "TreeItem"
          THEN <<Head(items).nodeId>> \o TreeIdsOf(Head(items).children)
          ELSE <<>>)
         \o TreeIdsOf(Tail(items))

\* the JSON viewer holds the tree of a fetched document
TreeHeld == rendered = "JsonViewer" /\ Len(viewerState) = 1

\* C16: the tree items convertToTree produces for a document have pairwise
\* distinct node ids, also when keys contain ', [ or ].
C16_DistinctNodeIds ==
    TreeHeld =>
        LET ids == TreeIdsOf(viewerState[1].children) IN
        \A i, j \in 1..Len(ids) : i # j => ids[i] # ids[j]

\* C17: every id in the tree's defaultExpanded list is the node id of a
\* top-level tree item.
C17_DefaultExpanded ==
    TreeHeld =>
        LET expanded == viewerState[1].defaultExpanded
            children == viewerState[1].children
        IN  \A i \in 1..Len(expanded) :
                \E j \in 1..Len(children) :
                    /\ children[j].el = "TreeItem"
                    /\ children[j].nodeId = expanded[i]

-----------------------------------------------------------------------------
(* FormData: the [name, value] entries in order; a value is a string or a *)
(* file                                                                    *)

Str(text) == [kind |-> "string", text |-> text]

\* FormData.has
FormDataHas(fd, name) == \E i \in 1..Len(fd) : fd[i].name = name

\* FormData.get: the first value of that name, or nothing
FormDataGet(fd, name) ==
    IF FormDataHas(fd, name)
    THEN Some(fd[Min({i \in 1..Len(fd) : fd[i].name = name})].value)
    ELSE None

\* FormData.getAll
FormDataGetAll(fd, name) ==
    LET Keep(e) == e.name = name
    IN  [i \in 1..Len(SelectSeq(fd, Keep)) |-> SelectSeq(fd, Keep)[i].value]

\* FormData.delete
FormDataDelete(fd, name) ==
    LET Keep(e) == e.name # name IN SelectSeq(fd, Keep)

\* FormData.append
FormDataAppend(fd, name, value) == Append(fd, [name |-> name, value |-> value])

\* FormDataEntryValue.toString()
ValueToString(value) ==
    IF value.kind = "string" THEN value.text ELSE "[object File]"

\* Boolean.prototype.toString
BoolToString(b) == IF b THEN "true" ELSE "false"

-----------------------------------------------------------------------------
(* root error boundary and the framework's handling of a handler's result *)

\* what an SDK promise rejects with: an Error instance
SdkErrors ==
    { [kind |-> "Error", status |-> 0, statusText |-> "", data |-> "",
       message |-> "connect ECONNREFUSED"],
      [kind |-> "Error", status |-> 0, statusText |-> "", data |-> "",
       message |-> "AccessDenied"] }

\* the values a route can throw besides SDK errors: route error responses
\* (the framework's own 404 and 405, a thrown Response), Error instances
\* and values that are neither
RouteErrors ==
    { [kind |-> "ErrorResponse", status |-> st[1], statusText |-> st[2],
       data |-> d, message |-> ""] :
        st \in {<<401, "Unauthorized">>, <<404, "Not Found">>,
                <<405, "Method Not Allowed">>,
                <<500, "Internal Server Error">>},
        d \in {"", "details"} }
    \cup { [kind |-> "Error", status |-> 0, statusText |-> "", data |-> "",
            message |-> "boom"],
           [kind |-> "other", status |-> 0, statusText |-> "", data |-> "",
            message |-> ""] }

\* the 404 case left to the default case
ErrorBoundary_No404(error) ==
    IF error.kind = "ErrorResponse"
    THEN IF error.status \in {401}
         THEN [el |-> "Document", threw |-> FALSE, layout |-> TRUE,
               heading |-> <<ToString(error.status), error.statusText>>,
               text |-> "no access"]
         ELSE [el |-> "none", threw |-> TRUE, layout |-> FALSE,
               heading |-> <<>>,
               text |-> IF error.data # "" THEN error.data
                        ELSE error.statusText]
    ELSE IF error.kind = "Error"
    THEN [el |-> "Document", threw |-> FALSE, layout |-> TRUE,
          heading |-> <<"There was an error">>, text |-> error.message]
    ELSE [el |-> "h1", threw |-> FALSE, layout |-> FALSE,
          heading |-> <<"Unknown Error">>, text |-> ""]

\* ErrorBoundary of the root route, given useRouteError()
ErrorBoundary(error) ==
    IF error.kind = "ErrorResponse"
    THEN IF error.status \in {401, 404}
         THEN [el |-> "Document", threw |-> FALSE, layout |-> TRUE,
               heading |-> <<ToString(error.status), error.statusText>>,
               text |-> IF error.status = 401 THEN "no access"
                        ELSE "does not exist"]
         ELSE [el |-> "none", threw |-> TRUE, layout |-> FALSE,
               heading |-> <<>>,
               text |-> IF error.data # "" THEN error.data
                        ELSE error.statusText]
    ELSE IF error.kind = "Error"
    THEN [el |-> "Document", threw |-> FALSE, layout |-> TRUE,
          heading |-> <<"There was an error">>, text |-> error.message]
    ELSE [el |-> "h1", threw |-> FALSE, layout |-> FALSE,
          heading |-> <<"Unknown Error">>, text |-> ""]

NoScreen == [el |-> "pending"]

-----------------------------------------------------------------------------
(* sqs.queues._index/actions.ts *)

Redirect(to) == [kind |-> "redirect", to |-> to]

\* the rejection caught and answered with the redirect
Throw_Swallowed(error) == [kind |-> "redirect", to |-> "/sqs/queues"]

\* what an await of a rejected promise makes of the handler's result
Throw(error) == [kind |-> "throw", error |-> error]

\* the state of Promise.all over the promises of the sent commands
PromiseAny(reqs) ==
    IF \E i \in 1..Len(reqs) : reqs[i].status = "resolved" THEN "fulfilled"
    ELSE IF \E i \in 1..Len(reqs) : reqs[i].status = "rejected" THEN "rejected"
    ELSE "pending"

PromiseAll(reqs) ==
    IF \E i \in 1..Len(reqs) : reqs[i].status = "rejected" THEN "rejected"
    ELSE IF \A i \in 1..Len(reqs) : reqs[i].status = "resolved" THEN "fulfilled"
    ELSE "pending"

\* the forms a create-queue request may carry
CreateForms ==
    { n \o f \o d :
        n \in {<<>>, <<[name |-> "name", value |-> Str("q")]>>,
               <<[name |-> "name", value |-> Str("q.fifo")]>>},
        f \in {<<>>, <<[name |-> "fifo", value |-> Str("on")]>>},
        d \in {<<>>, <<[name |-> "contentBasedDeduplication",
                        value |-> Str("on")]>>} }

\* `${formData.get('name')?.toString()}`
NameText(fd) ==
    IF FormDataGet(fd, "name") = None THEN "undefined"
    ELSE ValueToString(FormDataGet(fd, "name")[1])

\* the suffix is appended whatever the form says
QueueName_AlwaysFifo(fd) == NameText(fd) \o ".fifo"

\* QueueName of the CreateQueueCommand
QueueName(fd) ==
    NameText(fd) \o (IF FormDataHas(fd, "fifo") THEN ".fifo" ELSE "")

\* createQueueAction up to its await
createQueueAction(fd) ==
    /\ handler = "idle"
    /\ handler' = "createQueueAction"
    /\ formData' = fd
    /\ sent' = << [command |-> "CreateQueueCommand",
                   input |-> [QueueName |-> QueueName(fd),
                              FifoQueue |->
                                  BoolToString(FormDataHas(fd, "fifo")),
                              ContentBasedDeduplication |->
                                  BoolToString(FormDataHas(fd,
                                      "contentBasedDeduplication"))],
                   status |-> "pending", error |-> None] >>
    /\ UNCHANGED <<params, listObjectsResponse, result, screen>>
    /\ UNCHANGED notServerVars

\* the largest number of entries of the 'names' field
MaxNames == 3

QueueUrls == {"", "u1", "u2"}

\* the forms a delete-queues request may carry
DeleteForms ==
    {<<>>} \cup
    { <<[name |-> "names", value |-> Str(Join(us, ","))]>> :
        us \in UNION {[1..n -> QueueUrls] : n \in 1..MaxNames} }

\* formData.get('names')?.toString().split(',') ?? []
queuesToDelete(fd) ==
    IF FormDataGet(fd, "names") = None THEN <<>>
    ELSE Split(ValueToString(FormDataGet(fd, "names")[1]), ",")

\* deleteQueuesAction up to its await; Promise.all of no promise is
\* fulfilled at once
deleteQueuesAction(fd) ==
    /\ handler = "idle"
    /\ handler' = "deleteQueuesAction"
    /\ formData' = fd
    /\ sent' = [i \in 1..Len(queuesToDelete(fd)) |->
                  [command |-> "DeleteQueueCommand",
                   input |-> [QueueUrl |-> queuesToDelete(fd)[i]],
                   status |-> "pending", error |-> None]]
    /\ result' = IF Len(queuesToDelete(fd)) = 0
                 THEN Some(Redirect("/sqs/queues")) ELSE None
    /\ UNCHANGED <<params, listObjectsResponse, screen>>
    /\ UNCHANGED notServerVars

\* a command of an SQS action resolves; the action returns its redirect
\* when that fulfils the awaited promise
SqsResolve(i) ==
    /\ handler \in {"createQueueAction", "deleteQueuesAction"}
    /\ i \in 1..Len(sent)
    /\ sent[i].status = "pending"
    /\ sent' = [sent EXCEPT ![i].status = "resolved"]
    /\ result' = IF result = None /\ PromiseAll(sent') = "fulfilled"
                 THEN Some(Redirect("/sqs/queues")) ELSE result
    /\ UNCHANGED <<handler, formData, params, listObjectsResponse, screen>>
    /\ UNCHANGED notServerVars

\* a command of an SQS action rejects; the await throws the first rejection
SqsReject(i, error) ==
    /\ handler \in {"createQueueAction", "deleteQueuesAction"}
    /\ i \in 1..Len(sent)
    /\ sent[i].status = "pending"
    /\ sent' = [sent EXCEPT ![i].status = "rejected", ![i].error = Some(error)]
    /\ result' = IF result = None /\ PromiseAll(sent') = "rejected"
                 THEN Some(Throw(error)) ELSE result
    /\ UNCHANGED <<handler, formData, params, listObjectsResponse, screen>>
    /\ UNCHANGED notServerVars

-----------------------------------------------------------------------------
(* s3.buckets.$id.($key)/route.tsx: the loader *)

\* the url-safe base64 codec of src/utils, as an injective encoding
base64UrlEncode(text) == "b64:" \o text
base64UrlDecode(code) == Slice(code, 4, Len(code))

\* the largest number of segments of a key
MaxDepth == 2

Names == {"a", "b"}

\* the keys of n segments, without a trailing slash
RECURSIVE PathsOf(_)
PathsOf(n) ==
    IF n = 1 THEN Names
    ELSE {p \o "/" \o name : p \in PathsOf(n - 1), name \in Names}

\* the decoded keys a route may carry: objects and folders
DecodedKeys ==
    UNION { PathsOf(n) \cup {p \o "/" : p \in PathsOf(n)} : n \in 1..MaxDepth }

RouteParams ==
    {[id |-> "bkt", key |-> None]}
    \cup {[id |-> "bkt", key |-> Some(base64UrlEncode(k))] : k \in DecodedKeys}

\* params.key ? base64UrlDecode(params.key) : undefined
KeyOf(ps) ==
    IF ps.key = None \/ ps.key = Some("") THEN None
    ELSE Some(base64UrlDecode(ps.key[1]))

\* key?.slice(0, key?.lastIndexOf('/') + 1)
PrefixOf(ps) ==
    IF KeyOf(ps) = None THEN None
    ELSE Some(Slice(KeyOf(ps)[1], 0, LastIndexOf(KeyOf(ps)[1], "/") + 1))

\* list ?? []
OrEmptySeq(list) == IF Len(list) = 0 THEN <<>> ELSE list[1]

\* prefix ?? ''
OrEmpty(prefix) == IF prefix = None THEN "" ELSE prefix[1]

\* all subsequences of a sequence
RECURSIVE SubSeqs(_)
SubSeqs(xs) ==
    IF Len(xs) = 0 THEN {<<>>}
    ELSE LET rest == SubSeqs(Tail(xs))
         IN  rest \cup {<<Head(xs)>> \o r : r \in rest}

\* the keys ListObjectsV2 may return for a prefix, in key order: the
\* folder placeholder of the prefix itself, objects, and placeholders of
\* sub-folders
ContentsOf(prefix) ==
    (IF prefix = "" THEN <<>> ELSE <<[Key |-> prefix]>>)
    \o <<[Key |-> prefix \o "a"], [Key |-> prefix \o "a/"],
         [Key |-> prefix \o "b"]>>

\* the common prefixes ListObjectsV2 may return for a prefix
CommonPrefixesOf(prefix) ==
    <<[Prefix |-> prefix \o "a/"], [Prefix |-> prefix \o "b/"]>>

\* the responses to ListObjectsV2Command({Prefix, Delimiter: '/'}); an
\* empty list is left undefined by the SDK
ListResponses(prefix) ==
    { [CommonPrefixes |-> IF cps = <<>> THEN None ELSE Some(cps),
       Contents |-> IF cs = <<>> THEN None ELSE Some(cs)] :
        cps \in SubSeqs(CommonPrefixesOf(prefix)),
        cs \in SubSeqs(ContentsOf(prefix)) }

\* loader up to its await
loaderStart(ps) ==
    /\ handler = "idle"
    /\ handler' = "loader"
    /\ params' = ps
    /\ sent' = << [command |-> "ListObjectsV2Command",
                   input |-> [Bucket |-> ps.id, Prefix |-> PrefixOf(ps),
                              Delimiter |-> "/"],
                   status |-> "pending", error |-> None] >>
    /\ UNCHANGED <<formData, listObjectsResponse, result, screen>>
    /\ UNCHANGED notServerVars

\* the placeholder of the prefix itself is kept as a folder
IsFolderObject_KeepPrefix(obj, prefix) == EndsWith(obj.Key, "/")

\* obj.Key?.endsWith('/') && obj.Key !== prefix
IsFolderObject(obj, prefix) ==
    EndsWith(obj.Key, "/") /\ Some(obj.Key) # prefix

\* const folders
foldersOf(response, prefix) ==
    LET IsFolder(obj) == IsFolderObject(obj, prefix)
        kept == SelectSeq(OrEmptySeq(response.Contents), IsFolder)
    IN  OrEmptySeq(response.CommonPrefixes)
            \o [i \in 1..Len(kept) |-> [Prefix |-> kept[i].Key]]

\* const objects
objectsOf(response) ==
    LET IsObject(obj) == ~EndsWith(obj.Key, "/")
    IN  SelectSeq(OrEmptySeq(response.Contents), IsObject)

\* BaseName with every occurrence of the prefix removed
RECURSIVE BaseNameOf_ReplaceAll(_, _)
BaseNameOf_ReplaceAll(name, prefix) ==
    IF OrEmpty(prefix) = "" \/ IndexOf(name, OrEmpty(prefix)) = -1 THEN name
    ELSE BaseNameOf_ReplaceAll(Replace(name, OrEmpty(prefix), ""), prefix)

\* Key?.replace(prefix ?? '', '')
BaseNameOf(name, prefix) == Replace(name, OrEmpty(prefix), "")

\* enrichedResponse
enrichedDirectories(response, ps) ==
    [i \in 1..Len(foldersOf(response, PrefixOf(ps))) |->
        [Prefix |-> foldersOf(response, PrefixOf(ps))[i].Prefix,
         BucketName |-> ps.id,
         DirName |-> PrefixOf(ps),
         BaseName |-> BaseNameOf(foldersOf(response, PrefixOf(ps))[i].Prefix,
                                 PrefixOf(ps))]]

enrichedObjects(response, ps) ==
    [i \in 1..Len(objectsOf(response)) |->
        [Key |-> objectsOf(response)[i].Key,
         BucketName |-> ps.id,
         DirName |-> PrefixOf(ps),
         BaseName |-> BaseNameOf(objectsOf(response)[i].Key, PrefixOf(ps))]]

\* the first object found whatever its Key
FindByKey_First(objs, key) ==
    IF Len(objs) > 0 THEN Some(objs[1]) ELSE None

\* Array.prototype.find on Key
FindByKey(objs, key) ==
    IF \E i \in 1..Len(objs) : objs[i].Key = key
    THEN Some(objs[Min({i \in 1..Len(objs) : objs[i].Key = key})])
    ELSE None

\* !!key && !key.endsWith('/') ? Contents.find(...) : undefined
selectedObjectOf(response, ps) ==
    IF KeyOf(ps) # None /\ KeyOf(ps) # Some("") /\ ~EndsWith(KeyOf(ps)[1], "/")
    THEN FindByKey(enrichedObjects(response, ps), KeyOf(ps)[1])
    ELSE None

\* the listing resolves and the loader returns its view model
loaderListed(response) ==
    /\ handler = "loader"
    /\ sent[1].status = "pending"
    /\ sent' = [sent EXCEPT ![1].status = "resolved"]
    /\ listObjectsResponse' = Some(response)
    /\ result' = Some([kind |-> "json",
                       data |-> [directories |->
                                     enrichedDirectories(response, params),
                                 objects |-> enrichedObjects(response, params),
                                 selectedObject |->
                                     selectedObjectOf(response, params)]])
    /\ UNCHANGED <<handler, formData, params, screen>>
    /\ UNCHANGED notServerVars

\* the listing rejects and the loader's await throws
loaderRejected(error) ==
    /\ handler = "loader"
    /\ sent[1].status = "pending"
    /\ sent' = [sent EXCEPT ![1].status = "rejected", ![1].error = Some(error)]
    /\ result' = Some(Throw(error))
    /\ UNCHANGED <<handler, formData, params, listObjectsResponse, screen>>
    /\ UNCHANGED notServerVars

-----------------------------------------------------------------------------
(* s3.buckets.$id.($key)/route.tsx: BucketDetails rendered from the loader *)
(* data, and the framework around the handlers                             *)

\* mergedSegments?.split('/').filter(Boolean) ?? []
segmentsOf(mergedSegments) ==
    LET NotEmpty(segment) == segment # ""
    IN  IF mergedSegments = None THEN <<>>
        ELSE SelectSeq(Split(mergedSegments[1], "/"), NotEmpty)

\* mergedSegments?.slice(0, mergedSegments?.indexOf(segment)
\*                          + segment.length + 1)
breadcrumbPath(mergedSegments, segment) ==
    Slice(mergedSegments, 0,
          IndexOf(mergedSegments, segment) + Len(segment) + 1)

\* the CurrentPath items made of the segments
segmentItems(ps) ==
    [i \in 1..Len(segmentsOf(KeyOf(ps))) |->
        [key |-> segmentsOf(KeyOf(ps))[i],
         name |-> segmentsOf(KeyOf(ps))[i],
         to |-> "/s3/buckets/" \o ps.id \o "/"
                  \o base64UrlEncode(
                        breadcrumbPath(KeyOf(ps)[1],
                                       segmentsOf(KeyOf(ps))[i]))]]

\* what BucketDetails renders from the route params and the loader data:
\* the breadcrumbs and, with a selected object, the preview sidebar
BucketDetails(ps, data) ==
    [el |-> "route",
     items |-> segmentItems(ps),
     PreviewSidebar |-> data.selectedObject]

\* a route throws a value that is no SDK rejection
routeThrew(error) ==
    /\ handler = "idle"
    /\ handler' = "route"
    /\ result' = Some(Throw(error))
    /\ UNCHANGED <<formData, params, sent, listObjectsResponse, screen>>
    /\ UNCHANGED notServerVars

\* the framework: a thrown value reaches the error boundary, a redirect is
\* followed, data is given to the route component
FrameworkRender ==
    /\ handler # "idle"
    /\ Len(result) = 1
    /\ screen = NoScreen
    /\ screen' = IF result[1].kind = "throw"
                 THEN [el |-> "ErrorBoundary",
                       output |-> ErrorBoundary(result[1].error)]
                 ELSE IF result[1].kind = "redirect"
                 THEN [el |-> "redirect", to |-> result[1].to]
                 ELSE BucketDetails(params, result[1].data)
    /\ UNCHANGED <<handler, formData, params, sent, listObjectsResponse, result>>
    /\ UNCHANGED notServerVars

\* the response is complete and the server takes the next request; the
\* commands that are still in flight are no longer observed
Respond ==
    /\ handler # "idle"
    /\ screen # NoScreen
    /\ handler' = "idle"
    /\ formData' = <<>>
    /\ params' = [id |-> "", key |-> None]
    /\ sent' = <<>>
    /\ listObjectsResponse' = None
    /\ result' = None
    /\ screen' = NoScreen
    /\ UNCHANGED notServerVars

-----------------------------------------------------------------------------
(* Claims on the server's loaders and actions *)

Rejected == {i \in 1..Len(sent) : sent[i].status = "rejected"}

Returned(kind) == Len(result) = 1 /\ result[1].kind = kind

\* C4: once an SDK call of the running loader or action has rejected, the
\* handler has returned neither data nor a redirect: it has thrown the
\* error of a rejected call, and what the framework then renders is the
\* error boundary, which renders that error without throwing.
C4_RejectionSurfaces ==
    (handler # "idle" /\ Rejected # {}) =>
        /\ Returned("throw")
        /\ \E i \in Rejected : sent[i].error = Some(result[1].error)
        /\ screen # NoScreen =>
              /\ screen.el = "ErrorBoundary"
              /\ ~screen.output.threw
              /\ screen.output.text = result[1].error.message

C4_Witness ==
    /\ handler = "deleteQueuesAction"
    /\ \E i \in 1..Len(sent) : sent[i].status = "resolved"
    /\ Rejected # {}
    /\ screen # NoScreen
    /\ screen.el = "ErrorBoundary"

\* the text of the 'names' field
NamesText == ValueToString(FormDataGet(formData, "names")[1])

\* C6: deleteQueuesAction has one DeleteQueue request in flight or settled
\* per comma-separated entry of 'names' (none when the field is absent):
\* the queue urls, joined by commas, are the field, and none holds a comma;
\* the redirect to /sqs/queues is returned only when every request has
\* resolved, and never when one has rejected.
C6_DeleteQueues ==
    handler = "deleteQueuesAction" =>
        /\ \A i \in 1..Len(sent) :
              /\ sent[i].command = "DeleteQueueCommand"
              /\ Occurrences(sent[i].input.QueueUrl, ",") = {}
        /\ IF FormDataHas(formData, "names")
           THEN /\ Len(sent) = Cardinality(Occurrences(NamesText, ",")) + 1
                /\ Join([i \in 1..Len(sent) |-> sent[i].input.QueueUrl], ",")
                      = NamesText
           ELSE Len(sent) = 0
        /\ Returned("redirect") =>
              /\ result[1].to = "/sqs/queues"
              /\ \A i \in 1..Len(sent) : sent[i].status = "resolved"
        /\ Rejected # {} => ~Returned("redirect")

C6_Witness ==
    /\ handler = "deleteQueuesAction"
    /\ Len(sent) = 3
    /\ sent[1].input.QueueUrl = "u2"
    /\ sent[3].input.QueueUrl = "u1"
    /\ Returned("redirect")

\* C7: createQueueAction has exactly one CreateQueue request; with a
\* 'fifo' field in the form the queue name is the submitted name followed
\* by '.fifo' and FifoQueue is 'true', without it the name is the submitted
\* name and FifoQueue is 'false'; the redirect to /sqs/queues is returned
\* only when the request has resolved.
C7_CreateQueue ==
    handler = "createQueueAction" =>
        /\ Len(sent) = 1
        /\ sent[1].command = "CreateQueueCommand"
        /\ LET input == sent[1].input
               appended == input.QueueName = NameText(formData) \o ".fifo"
               unchanged == input.QueueName = NameText(formData)
           IN  /\ input.FifoQueue \in {"true", "false"}
               /\ (input.FifoQueue = "true") <=> appended
               /\ appended <=> FormDataHas(formData, "fifo")
               /\ ~appended => unchanged
        /\ Returned("redirect") =>
              /\ result[1].to = "/sqs/queues"
              /\ sent[1].status = "resolved"

C7_Witness ==
    /\ handler = "createQueueAction"
    /\ Len(sent) = 1
    /\ sent[1].input.QueueName = "q.fifo.fifo"
    /\ sent[1].input.FifoQueue = "true"
    /\ Returned("redirect")

\* the loader has returned its view model
Loaded == handler = "loader" /\ Returned("json")

\* the decoded key of the route, when it has one
RouteKey == base64UrlDecode(params.key[1])

\* the part of a key up to and including its last '/'
DirOf(key) ==
    CHOOSE dir \in {Slice(key, 0, i) : i \in 0..Len(key)} :
        /\ dir = "" \/ EndsWith(dir, "/")
        /\ Occurrences(Slice(key, Len(dir), Len(key)), "/") = {}

\* the enriched entries of the view model, folders by Prefix and objects
\* by Key
EntryNames ==
    [i \in 1..Len(result[1].data.directories) |->
        result[1].data.directories[i].Prefix]
    \o [i \in 1..Len(result[1].data.objects) |->
        result[1].data.objects[i].Key]

Entries == result[1].data.directories \o result[1].data.objects

\* C5: every directory and object of the view model has BucketName equal
\* to the route's bucket id, DirName equal to the listing prefix (the
\* decoded key up to and including its last '/', undefined without a key)
\* and a BaseName such that DirName followed by BaseName is its Key or
\* Prefix.
C5_Enriched ==
    Loaded =>
        \A i \in 1..Len(Entries) :
            /\ Entries[i].BucketName = params.id
            /\ Entries[i].DirName =
                  (IF params.key = None THEN None ELSE Some(DirOf(RouteKey)))
            /\ Entries[i].DirName = sent[1].input.Prefix
            /\ OrEmpty(Entries[i].DirName) \o Entries[i].BaseName
                  = EntryNames[i]

C5_Witness ==
    /\ Loaded
    /\ params.key = Some(base64UrlEncode("a/b"))
    /\ \E i \in 1..Len(result[1].data.directories) :
          /\ result[1].data.directories[i].Prefix = "a/a/"
          /\ result[1].data.directories[i].DirName = Some("a/")
          /\ result[1].data.directories[i].BaseName = "a/"
    /\ \E i \in 1..Len(result[1].data.objects) :
          /\ result[1].data.objects[i].Key = "a/b"
          /\ result[1].data.objects[i].BaseName = "b"

\* the keys and prefixes of the listing
ListedKeys ==
    [i \in 1..Len(OrEmptySeq(listObjectsResponse[1].Contents)) |->
        OrEmptySeq(listObjectsResponse[1].Contents)[i].Key]

ListedPrefixes ==
    [i \in 1..Len(OrEmptySeq(listObjectsResponse[1].CommonPrefixes)) |->
        OrEmptySeq(listObjectsResponse[1].CommonPrefixes)[i].Prefix]

Range(xs) == {xs[i] : i \in 1..Len(xs)}

DirectoryNames ==
    [i \in 1..Len(result[1].data.directories) |->
        result[1].data.directories[i].Prefix]

ObjectNames ==
    [i \in 1..Len(result[1].data.objects) |-> result[1].data.objects[i].Key]

\* C10: 'objects' holds exactly the listed keys that do not end with '/',
\* 'directories' exactly the common prefixes and the listed keys that end
\* with '/' other than the current prefix, each as often as it is listed;
\* no key is both a directory and an object.
C10_Partition ==
    Loaded =>
        /\ Range(ObjectNames) = {k \in Range(ListedKeys) : ~EndsWith(k, "/")}
        /\ Len(ObjectNames) =
              Cardinality({i \in 1..Len(ListedKeys) :
                              ~EndsWith(ListedKeys[i], "/")})
        /\ Range(DirectoryNames) =
              Range(ListedPrefixes)
              \cup {k \in Range(ListedKeys) :
                      EndsWith(k, "/") /\ Some(k) # sent[1].input.Prefix}
        /\ Len(DirectoryNames) =
              Len(ListedPrefixes)
              + Cardinality({i \in 1..Len(ListedKeys) :
                               /\ EndsWith(ListedKeys[i], "/")
                               /\ Some(ListedKeys[i]) # sent[1].input.Prefix})
        /\ Range(ListedKeys) \cup Range(ListedPrefixes)
              \subseteq Range(ObjectNames) \cup Range(DirectoryNames)
                        \cup Range(sent[1].input.Prefix)
        /\ Range(DirectoryNames) \cap Range(ObjectNames) = {}

C10_Witness ==
    /\ Loaded
    /\ Range(ListedKeys) = {"a/", "a/a", "a/a/", "a/b"}
    /\ Range(ListedPrefixes) = {"a/b/"}
    /\ Range(DirectoryNames) = {"a/a/", "a/b/"}
    /\ Range(ObjectNames) = {"a/a", "a/b"}

\* C11: the view model's selectedObject is defined exactly when the route
\* has a key, the decoded key does not end with '/' and the listing holds
\* an object of that Key; it is then that object with its enrichment, one
\* of the view model's objects; the page shows the preview sidebar exactly
\* when it is defined.
C11_SelectedObject ==
    Loaded =>
        LET selected == result[1].data.selectedObject IN
        /\ Len(selected) = 1 <=>
              /\ params.key # None
              /\ ~EndsWith(RouteKey, "/")
              /\ RouteKey \in Range(ListedKeys)
        /\ Len(selected) = 1 =>
              /\ selected[1].Key = RouteKey
              /\ selected[1].BucketName = params.id
              /\ selected[1].DirName = Some(DirOf(RouteKey))
              /\ selected[1].DirName[1] \o selected[1].BaseName = RouteKey
              /\ selected[1] \in Range(result[1].data.objects)
        /\ screen # NoScreen =>
              /\ screen.el = "route"
              /\ Len(screen.PreviewSidebar) = 1 <=> Len(selected) = 1
              /\ screen.PreviewSidebar = selected

C11_Witness ==
    /\ Loaded
    /\ params.key = Some(base64UrlEncode("a/b"))
    /\ Range(ObjectNames) = {"a/a", "a/b"}
    /\ result[1].data.selectedObject
          = Some([Key |-> "a/b", BucketName |-> "bkt", DirName |-> Some("a/"),
                  BaseName |-> "b"])
    /\ screen # NoScreen
    /\ Len(screen.PreviewSidebar) = 1

\* the error boundary was rendered with the thrown value
BoundaryRendered == screen # NoScreen /\ screen.el = "ErrorBoundary"

\* what the boundary renders for the values it renders
BoundaryPages ==
    LET error == result[1].error
        output == screen.output
    IN  /\ (error.kind = "ErrorResponse" /\ error.status \in {401, 404}) =>
              /\ output.el = "Document"
              /\ output.layout
              /\ output.heading = <<ToString(error.status), error.statusText>>
              /\ output.text # ""
        /\ error.kind = "Error" =>
              /\ output.el = "Document"
              /\ output.layout
              /\ output.text = error.message

\* C12 as stated: the boundary renders a page for every error value: the
\* status and its message in the layout for a route error response of
\* status 401 or 404, the message in the layout for an Error instance,
\* 'Unknown Error' for any other value; it never throws.
C12_NeverThrows ==
    BoundaryRendered =>
        LET error == result[1].error IN
        /\ ~screen.output.threw
        /\ BoundaryPages
        /\ (/\ ~(error.kind = "ErrorResponse" /\ error.status \in {401, 404})
            /\ error.kind # "Error") =>
              screen.output.heading = <<"Unknown Error">>

\* C12 amended: as stated for a route error response of status 401 or 404
\* and for an Error instance; 'Unknown Error' is rendered for a value that
\* is neither a route error response nor an Error; for a route error
\* response of any other status the boundary throws an Error whose message
\* is the response's data or, without data, its status text, and it throws
\* in no other case.
C12_Boundary ==
    BoundaryRendered =>
        LET error == result[1].error IN
        /\ BoundaryPages
        /\ error.kind \notin {"ErrorResponse", "Error"} =>
              /\ ~screen.output.threw
              /\ screen.output.heading = <<"Unknown Error">>
        /\ screen.output.threw <=>
              (error.kind = "ErrorResponse" /\ error.status \notin {401, 404})
        /\ screen.output.threw =>
              /\ error.data # "" => screen.output.text = error.data
              /\ error.data = "" => screen.output.text = error.statusText

C12_Witness ==
    /\ BoundaryRendered
    /\ result[1].error.kind = "ErrorResponse"
    /\ result[1].error.status = 404
    /\ screen.output.heading = <<"404", "Not Found">>
    /\ screen.output.layout

\* the first n segments, each followed by '/'
RECURSIVE FirstSegments(_, _)
FirstSegments(segments, n) ==
    IF n = 0 THEN ""
    ELSE FirstSegments(segments, n - 1) \o segments[n] \o "/"

\* C15: the breadcrumb of the segment at position i of the decoded key
\* links to the encoded path made of the first i segments (counted from
\* one), each followed by '/', also when the segment's text occurs earlier
\* in the key.
C15_Breadcrumbs ==
    (screen # NoScreen /\ screen.el = "route") =>
        /\ Len(screen.items) = Len(segmentsOf(KeyOf(params)))
        /\ \A i \in 1..Len(screen.items) :
              /\ screen.items[i].name = segmentsOf(KeyOf(params))[i]
              /\ screen.items[i].to =
                    "/s3/buckets/" \o params.id \o "/"
                    \o base64UrlEncode(
                          FirstSegments(segmentsOf(KeyOf(params)), i))

-----------------------------------------------------------------------------
(* URLSearchParams: the [name, value] pairs in order *)

\* URLSearchParams.has
ParamsHas(sp, name) == \E i \in 1..Len(sp) : sp[i].name = name

\* URLSearchParams.get: the first value of that name, or null
ParamsGet(sp, name) ==
    IF ParamsHas(sp, name)
    THEN Some(sp[Min({i \in 1..Len(sp) : sp[i].name = name})].value)
    ELSE None

\* URLSearchParams.delete: every pair of that name
ParamsDelete(sp, name) ==
    LET Keep(e) == e.name # name IN SelectSeq(sp, Keep)

\* URLSearchParams.set: the first pair of that name takes the value and
\* the others are removed; without one, a pair is appended
ParamsSet(sp, name, value) ==
    IF ParamsHas(sp, name)
    THEN LET first == Min({i \in 1..Len(sp) : sp[i].name = name})
         IN  SubSeq(sp, 1, first - 1)
                \o <<[name |-> name, value |-> value]>>
                \o ParamsDelete(SubSeq(sp, first + 1, Len(sp)), name)
    ELSE Append(sp, [name |-> name, value |-> value])

-----------------------------------------------------------------------------
(* s3.buckets.$id.($key)/route.tsx: BucketDetails and its search params *)

\* searchParams.get('selection')?.split(',') ?? []
selectedObjectsOf(sp) ==
    IF ParamsGet(sp, "selection") = None THEN <<>>
    ELSE Split(ParamsGet(sp, "selection")[1], ",")

\* searchParams.get('search') ?? ''
searchOf(sp) == OrEmpty(ParamsGet(sp, "search"))

\* sortable: !search
sortableOf(sp) == searchOf(sp) = ""

\* the rename dialog open on the 'rename' param alone
Render_RenameOnParam(sp) ==
    [search |-> searchOf(sp),
     clearButton |-> searchOf(sp) # "",
     sortable |-> sortableOf(sp),
     selectedObjects |-> selectedObjectsOf(sp),
     deleteDisabled |-> Len(selectedObjectsOf(sp)) < 1,
     renameDisabled |-> Len(selectedObjectsOf(sp)) # 1,
     createFolderOpen |-> ParamsHas(sp, "create-folder"),
     uploadOpen |-> ParamsHas(sp, "upload"),
     deleteOpen |-> ParamsHas(sp, "delete") /\ Len(selectedObjectsOf(sp)) > 0,
     renameOpen |-> ParamsHas(sp, "rename")]

\* what BucketDetails renders from the search params
Render(sp) ==
    [search |-> searchOf(sp),
     clearButton |-> searchOf(sp) # "",
     sortable |-> sortableOf(sp),
     selectedObjects |-> selectedObjectsOf(sp),
     deleteDisabled |-> Len(selectedObjectsOf(sp)) < 1,
     renameDisabled |-> Len(selectedObjectsOf(sp)) # 1,
     createFolderOpen |-> ParamsHas(sp, "create-folder"),
     uploadOpen |-> ParamsHas(sp, "upload"),
     deleteOpen |-> ParamsHas(sp, "delete") /\ Len(selectedObjectsOf(sp)) > 0,
     renameOpen |-> ParamsHas(sp, "rename") /\ Len(selectedObjectsOf(sp)) = 1]

\* the search param set even to the empty text
searchUpdater_AlwaysSet(previousParams, value) ==
    ParamsSet(previousParams, "search", value)

\* the updater given to setSearchParams by the search field's onChange
searchUpdater(previousParams, value) ==
    IF value # "" THEN ParamsSet(previousParams, "search", value)
    ELSE ParamsDelete(previousParams, "search")

\* the updater of the clear button's onClick
clearUpdater(previousParams) == ParamsDelete(previousParams, "search")

\* useLinkUtils().withSearchParam: the current location with the param set
withSearchParam(sp, name, value) == ParamsSet(sp, name, value)

\* the updater of onRowSelectionModelChange
selectionUpdater(previousParams, newSelection) ==
    IF Len(newSelection) < 1 THEN ParamsDelete(previousParams, "selection")
    ELSE ParamsSet(previousParams, "selection", Join(newSelection, ","))

\* the texts a user types in the search field
SearchTexts == {"", "x", "xy"}

\* the row ids of the grid: object keys and folder prefixes
RowIds == {"a", "b,c", "d/"}

\* the largest number of rows selected at once
MaxSelected == 2

Selections ==
    UNION { {sel \in [1..n -> RowIds] :
                \A i, j \in 1..n : sel[i] = sel[j] => i = j} :
            n \in 0..MaxSelected }

\* the search params of the URLs the page is opened with
InitialParams ==
    { search \o selection \o up :
        search \in {<<>>, <<[name |-> "search", value |-> ""]>>,
                    <<[name |-> "search", value |-> "x"]>>,
                    <<[name |-> "search", value |-> "x"],
                      [name |-> "search", value |-> "y"]>>},
        selection \in {<<>>, <<[name |-> "selection", value |-> "a"]>>},
        up \in {<<>>, <<[name |-> "upload", value |-> ""]>>,
                 <<[name |-> "create-folder", value |-> ""]>>} }

\* the search field's onChange
SearchChange(value) ==
    /\ searchParams' = searchUpdater(searchParams, value)
    /\ view' = Render(searchParams')
    /\ lastEvent' = [kind |-> "change", value |-> value, rows |-> <<>>]
    /\ UNCHANGED notUrlVars

\* the clear button's onClick; the button is rendered with a search text
SearchClear ==
    /\ view.clearButton
    /\ searchParams' = clearUpdater(searchParams)
    /\ view' = Render(searchParams')
    /\ lastEvent' = [kind |-> "clear", value |-> "", rows |-> <<>>]
    /\ UNCHANGED notUrlVars

\* the grid's onRowSelectionModelChange
RowSelectionChange(newSelection) ==
    /\ searchParams' = selectionUpdater(searchParams, newSelection)
    /\ view' = Render(searchParams')
    /\ lastEvent' = [kind |-> "selection", value |-> "", rows |-> newSelection]
    /\ UNCHANGED notUrlVars

\* a navigation to the link of the Delete or the Rename button, by a
\* click or by opening its URL
Navigate(name) ==
    /\ searchParams' = withSearchParam(searchParams, name, "")
    /\ view' = Render(searchParams')
    /\ lastEvent' = [kind |-> "navigate", value |-> name, rows |-> <<>>]
    /\ UNCHANGED notUrlVars

UrlNext ==
    \/ \E value \in SearchTexts : SearchChange(value)
    \/ SearchClear
    \/ \E newSelection \in Selections : RowSelectionChange(newSelection)
    \/ \E name \in {"delete", "rename"} : Navigate(name)

-----------------------------------------------------------------------------
(* s3.buckets.$id.($key)/route.tsx: the droppable upload form *)

\* a dropped file; react-dropzone gives some a path
File(name, path) == [kind |-> "file", name |-> name, path |-> path]

\* the entry of a file input without selected files
EmptyFile == File("", None)

DroppedFiles ==
    {File("x.txt", Some("dir/x.txt")), File("y.txt", None)}

\* the largest number of files in one drop
MaxFiles == 2

FileLists == UNION {[1..n -> DroppedFiles] : n \in 0..MaxFiles}

\* the largest number of drops on the page
MaxDrops == 2

\* decodedBaseDir
BaseDirs == {"", "a/"}

\* the DroppableForm element with its named controls, in tree order
DroppableForm(id, decodedBaseDir) ==
    [method |-> "POST",
     action |-> "/s3/buckets/" \o id \o "/upload?prefix=" \o decodedBaseDir,
     encType |-> "multipart/form-data",
     controls |-> << [type |-> "hidden", name |-> "baseDir",
                      value |-> decodedBaseDir],
                     [type |-> "hidden", name |-> "paths", value |-> ""],
                     [type |-> "file", name |-> "files", value |-> ""] >>]

\* new FormData(form): a hidden input gives its value, a file input
\* without selected files gives one empty file
NewFormData(form) ==
    [i \in 1..Len(form.controls) |->
        [name |-> form.controls[i].name,
         value |-> IF form.controls[i].type = "file" THEN EmptyFile
                   ELSE Str(form.controls[i].value)]]

\* file.path ?? file.name
PathOf(file) == IF file.path = None THEN file.name ELSE file.path[1]

\* acceptedFiles.forEach(file => { append 'paths'; append 'files' })
RECURSIVE AppendFiles(_, _)
AppendFiles(fd, files) ==
    IF Len(files) = 0 THEN fd
    ELSE AppendFiles(
            FormDataAppend(
                FormDataAppend(fd, "paths", Str(PathOf(Head(files)))),
                "files", Head(files)),
            Tail(files))

\* the form data onDrop submits
dropFormData(form, files) ==
    AppendFiles(FormDataDelete(NewFormData(form), "files"), files)

\* the form is rendered and the ref attached
FormMount(decodedBaseDir) ==
    /\ formRef = None
    /\ formRef' = Some(DroppableForm("bkt", decodedBaseDir))
    /\ UNCHANGED <<acceptedFiles, submitted>>
    /\ UNCHANGED notDropVars

\* the page is left and the ref cleared
FormUnmount ==
    /\ formRef # None
    /\ formRef' = None
    /\ UNCHANGED <<acceptedFiles, submitted>>
    /\ UNCHANGED notDropVars

\* useDropzone's onDrop
onDrop(files) ==
    /\ Len(acceptedFiles) < MaxDrops
    /\ acceptedFiles' =
          Append(acceptedFiles, [files |-> files, mounted |-> formRef # None])
    /\ IF formRef = None
       THEN UNCHANGED submitted
       ELSE submitted' =
              Append(submitted,
                     [formData |-> dropFormData(formRef[1], files),
                      method |-> formRef[1].method,
                      action |-> formRef[1].action,
                      encType |-> formRef[1].encType])
    /\ UNCHANGED formRef
    /\ UNCHANGED notDropVars

DropNext ==
    \/ \E decodedBaseDir \in BaseDirs : FormMount(decodedBaseDir)
    \/ FormUnmount
    \/ \E files \in FileLists : onDrop(files)

-----------------------------------------------------------------------------
(* Claims on the bucket page *)

\* the drops made while the form was mounted, in order
IsMounted(drop) == drop.mounted
MountedDrops == SelectSeq(acceptedFiles, IsMounted)

\* C8: each drop made while the upload form is mounted makes exactly one
\* submission, whose 'paths' entries are the paths of the dropped files
\* (the name of a file without path), in order, and whose 'files' entries
\* are the files, so that both have as many entries as there are files; a
\* drop made while the form is not mounted submits nothing.
C8_DropSubmits ==
    /\ Len(submitted) = Len(MountedDrops)
    /\ \A j \in 1..Len(submitted) :
          /\ FormDataGetAll(submitted[j].formData, "files")
                = MountedDrops[j].files
          /\ FormDataGetAll(submitted[j].formData, "paths")
                = [i \in 1..Len(MountedDrops[j].files) |->
                      Str(PathOf(MountedDrops[j].files[i]))]
          /\ Len(FormDataGetAll(submitted[j].formData, "paths"))
                = Len(FormDataGetAll(submitted[j].formData, "files"))

\* the params of other names than 'search'
NotSearch(e) == e.name # "search"
OtherParams(sp) == SelectSeq(sp, NotSearch)

SearchEntries(sp) == {i \in 1..Len(sp) : sp[i].name = "search"}

\* C9 (state part): after an edit of the search field the 'search' param
\* is the typed text when that is not empty and is absent when it is
\* empty; after a press of the clear button it is absent; the columns are
\* rendered sortable exactly when the URL holds no search text.
C9_SearchParam ==
    /\ (lastEvent.kind = "change" /\ lastEvent.value # "") =>
          /\ ParamsGet(searchParams, "search") = Some(lastEvent.value)
          /\ Cardinality(SearchEntries(searchParams)) = 1
    /\ (lastEvent.kind = "change" /\ lastEvent.value = "") =>
          SearchEntries(searchParams) = {}
    /\ lastEvent.kind = "clear" => SearchEntries(searchParams) = {}
    /\ view.sortable <=>
          (\A i \in SearchEntries(searchParams) :
              i = Min(SearchEntries(searchParams)) => searchParams[i].value = "")

\* C9 (frame part): an edit of the search field or a press of the clear
\* button leaves the params of every other name as they were.
C9_SearchFrame ==
    lastEvent'.kind \in {"change", "clear"} =>
        OtherParams(searchParams') = OtherParams(searchParams)

\* C9: the 'search' param follows the search field and its clear button,
\* every such update leaves the other params unchanged, and the columns
\* are sortable exactly when the search text is empty.
C9_Search == []C9_SearchParam /\ [][C9_SearchFrame]_vars

C9_Witness ==
    /\ lastEvent = [kind |-> "change", value |-> "xy", rows |-> <<>>]
    /\ ParamsGet(searchParams, "search") = Some("xy")
    /\ ParamsHas(searchParams, "selection")
    /\ ParamsHas(searchParams, "delete")
    /\ ParamsHas(searchParams, "upload")
    /\ ~view.sortable

\* the number of row ids the 'selection' param holds
SelectionCount ==
    IF ParamsHas(searchParams, "selection")
    THEN Cardinality(Occurrences(ParamsGet(searchParams, "selection")[1], ",")) + 1
    ELSE 0

\* C13: in every state of the bucket page reached by row-selection
\* changes, search edits and navigations adding the 'delete' or 'rename'
\* param, the rename dialog is open only when exactly one object is
\* selected and the delete dialog only when at least one is; the Rename
\* button is enabled exactly when one object is selected and the Delete
\* button exactly when at least one is; the selection is the list read
\* from the 'selection' param.
C13_Dialogs ==
    /\ view.renameOpen => Len(view.selectedObjects) = 1
    /\ view.deleteOpen => Len(view.selectedObjects) >= 1
    /\ ~view.renameDisabled <=> Len(view.selectedObjects) = 1
    /\ ~view.deleteDisabled <=> Len(view.selectedObjects) >= 1
    /\ Len(view.selectedObjects) = SelectionCount
    /\ ParamsHas(searchParams, "selection") =>
          Join(view.selectedObjects, ",") = ParamsGet(searchParams, "selection")[1]

C13_Witness ==
    /\ lastEvent.kind = "navigate"
    /\ lastEvent.value = "rename"
    /\ ParamsHas(searchParams, "delete")
    /\ view.selectedObjects = <<"d/", "a">>
    /\ view.deleteOpen
    /\ ~view.renameOpen
    /\ view.renameDisabled
    /\ ~view.deleteDisabled

NotSelection(e) == e.name # "selection"

\* C14 (state part): after a change of the row selection the selection
\* read back from the URL is the chosen list of row ids, element for
\* element, and the 'selection' param is absent exactly when the chosen
\* list is empty.
C14_SelectionRead ==
    lastEvent.kind = "selection" =>
        /\ view.selectedObjects = lastEvent.rows
        /\ Len(lastEvent.rows) = 0 <=> ~ParamsHas(searchParams, "selection")

\* C14 (frame part): a change of the row selection leaves the params of
\* every other name as they were.
C14_SelectionFrame ==
    lastEvent'.kind = "selection" =>
        SelectSeq(searchParams', NotSelection) = SelectSeq(searchParams, NotSelection)

\* C14: the row selection round-trips through the URL: every chosen list
\* of row ids is read back the same, the empty selection is the absence of
\* the param, and a selection change leaves the other params unchanged.
C14_SelectionRoundTrip == []C14_SelectionRead /\ [][C14_SelectionFrame]_vars

-----------------------------------------------------------------------------
(* Specifications *)

\* no preview is open; the preview pipeline
PreviewInit ==
    /\ contentType = ""
    /\ rendered = "none"
    /\ fetchState = "idle"
    /\ body = None
    /\ viewerState = None
    /\ handler = "idle"
    /\ formData = <<>>
    /\ params = [id |-> "", key |-> None]
    /\ sent = <<>>
    /\ listObjectsResponse = None
    /\ result = None
    /\ screen = NoScreen
    /\ searchParams = <<>>
    /\ view = Render(<<>>)
    /\ lastEvent = [kind |-> "open", value |-> "", rows |-> <<>>]
    /\ formRef = None
    /\ acceptedFiles = <<>>
    /\ submitted = <<>>

PreviewSpec == PreviewInit /\ [][PreviewNext]_vars

ServerNext ==
    \/ \E fd \in CreateForms : createQueueAction(fd)
    \/ \E fd \in DeleteForms : deleteQueuesAction(fd)
    \/ \E i \in 1..MaxNames : SqsResolve(i)
    \/ \E i \in 1..MaxNames, error \in SdkErrors : SqsReject(i, error)
    \/ \E ps \in RouteParams : loaderStart(ps)
    \/ \E response \in ListResponses(OrEmpty(PrefixOf(params))) :
            loaderListed(response)
    \/ \E error \in SdkErrors : loaderRejected(error)
    \/ \E error \in RouteErrors : routeThrew(error)
    \/ FrameworkRender
    \/ Respond

\* no request is being handled; the loaders and actions run by the server
ServerInit ==
    /\ contentType = ""
    /\ rendered = "none"
    /\ fetchState = "idle"
    /\ body = None
    /\ viewerState = None
    /\ handler = "idle"
    /\ formData = <<>>
    /\ params = [id |-> "", key |-> None]
    /\ sent = <<>>
    /\ listObjectsResponse = None
    /\ result = None
    /\ screen = NoScreen
    /\ searchParams = <<>>
    /\ view = Render(<<>>)
    /\ lastEvent = [kind |-> "open", value |-> "", rows |-> <<>>]
    /\ formRef = None
    /\ acceptedFiles = <<>>
    /\ submitted = <<>>

ServerSpec == ServerInit /\ [][ServerNext]_vars

\* the bucket page is shown for a URL; its URL state
UrlInit ==
    /\ contentType = ""
    /\ rendered = "none"
    /\ fetchState = "idle"
    /\ body = None
    /\ viewerState = None
    /\ handler = "idle"
    /\ formData = <<>>
    /\ params = [id |-> "", key |-> None]
    /\ sent = <<>>
    /\ listObjectsResponse = None
    /\ result = None
    /\ screen = NoScreen
    /\ searchParams \in InitialParams
    /\ view = Render(searchParams)
    /\ lastEvent = [kind |-> "open", value |-> "", rows |-> <<>>]
    /\ formRef = None
    /\ acceptedFiles = <<>>
    /\ submitted = <<>>

UrlSpec == UrlInit /\ [][UrlNext]_vars

\* the bucket page before its first render; its upload form
DropInit ==
    /\ contentType = ""
    /\ rendered = "none"
    /\ fetchState = "idle"
    /\ body = None
    /\ viewerState = None
    /\ handler = "idle"
    /\ formData = <<>>
    /\ params = [id |-> "", key |-> None]
    /\ sent = <<>>
    /\ listObjectsResponse = None
    /\ result = None
    /\ screen = NoScreen
    /\ searchParams = <<>>
    /\ view = Render(<<>>)
    /\ lastEvent = [kind |-> "open", value |-> "", rows |-> <<>>]
    /\ formRef = None
    /\ acceptedFiles = <<>>
    /\ submitted = <<>>

DropSpec == DropInit /\ [][DropNext]_vars

====
